---- MODULE Spec2Model ----
(***************************************************************************)
(* A model of ga-rss (src/src/main.rs): the fetch / parse / sort /         *)
(* partition / render / write pipeline of main.                            *)
(*                                                                         *)
(* Representation.                                                         *)
(*   Option<T>      None is <<>>, Some(x) is <<x>>.                        *)
(*   instants       ticks since 2023-01-01T00:00Z, TicksPerDay ticks a day *)
(*   DateTime<FixedOffset>   [t |-> instant, off |-> offset in ticks];     *)
(*                  ordering and equality of dates in the code compare the *)
(*                  instant only, year() and format() use local time t+off *)
(*   pubDate text   <<"ok", d>> is a text that diligent_date_parser reads  *)
(*                  as the date d, <<"bad">> a text it rejects             *)
(*   String joined by "\n\n"   the sequence of the joined blocks           *)
(*   a panic (expect / unwrap / index out of bounds) is pc = "panicked"    *)
(***************************************************************************)
EXTENDS Integers, Sequences, FiniteSets, TLC

VARIABLES
    channels,   \* Vec<Channel> returned by get_channels
    fstate,     \* per channel: position of its fetch future
    requests,   \* per channel: requests its fetch future has sent
    contents,   \* per channel: Result<Bytes, Error> of the joined futures
    parsed,     \* per channel: the entries its parser call returned (history)
    idx,        \* loop index of the parse loop of fetch_feed
    feeds,      \* Vec<FeedsItem>: local of fetch_feed, then of main
    now,        \* chrono::Utc::now() read by split_by_group (<<>> before)
    buckets,    \* HashMap<String, Vec<FeedsItem>> returned by split_by_group
    todo,       \* keys the write loop of main has not visited yet
    docs,       \* bucket key -> the doc generate_md returned for it (history)
    files,      \* the output directory: file name -> text written
    pc          \* position of main

vars == <<channels, fstate, requests, contents, parsed, idx, feeds, now, buckets, todo,
          docs, files, pc>>

----------------------------------------------------------------------------
\* Bounds of the model.

NumChannels == 2
MaxItems == 2
TicksPerDay == 2

----------------------------------------------------------------------------
\* Option

None == <<>>
Some(x) == <<x>>
IsSome(o) == Len(o) = 1
Unwrap(o) == o[1]

----------------------------------------------------------------------------
\* Calendar (chrono): proleptic Gregorian years from 2023 on.

Years == 2023..2027

IsLeap(y) == y % 4 = 0 /\ (y % 100 # 0 \/ y % 400 = 0)

DaysInYear(y) == IF IsLeap(y) THEN 366 ELSE 365

RECURSIVE YearStart(_)
YearStart(y) == IF y <= 2023 THEN 0 ELSE YearStart(y - 1) + DaysInYear(y - 1)

\* the instant of tick `tick` of day-of-year `doy` (1-based) of year y
At(y, doy, tick) == (YearStart(y) + doy - 1) * TicksPerDay + tick

DayOf(t) == t \div TicksPerDay

YearOfDay(d) == CHOOSE y \in Years : YearStart(y) <= d /\ d < YearStart(y + 1)

\* Datelike::year of a DateTime<FixedOffset>: the year of the local date
year(date) == YearOfDay(DayOf(date.t + date.off))

\* date.format("%Y-%m-%d"): the local calendar date
format_ymd(date) ==
    LET d == DayOf(date.t + date.off)
        y == YearOfDay(d)
    IN  [y |-> y, doy |-> d - YearStart(y) + 1]

\* Datelike::with_year on a UTC instant: same month, day and time of day in
\* year y2; None when that date does not exist (Feb 29 in a non-leap year).
with_year(t, y2) ==
    LET d   == DayOf(t)
        tod == t % TicksPerDay
        y1  == YearOfDay(d)
        doy == d - YearStart(y1) + 1
    IN  IF IsLeap(y1) = IsLeap(y2)
          THEN Some(At(y2, doy, tod))
        ELSE IF IsLeap(y1)
          THEN IF doy = 60 THEN None
               ELSE Some(At(y2, IF doy > 60 THEN doy - 1 ELSE doy, tod))
        ELSE Some(At(y2, IF doy > 59 THEN doy + 1 ELSE doy, tod))

----------------------------------------------------------------------------
\* Inputs.

\* sequences over S of length at most n
SeqUpTo(S, n) == UNION {[1..k -> S] : k \in 0..n}

ChannelIds == 1..NumChannels

Authors == <<"Alice", "Bob", "Carol", "Dave">>

Urls == <<"http://a", "http://b", "http://c", "http://d">>

\* group labels of the subscription list: none, an ordinary label, and the two
\* labels that coincide with names main and split_by_group use themselves
Groups == {"", "Tech", "all", "this-year"}

\* published dates carried by the feeds: 2025-01-01 towards the end of the day
\* in UTC; an earlier instant of 2025-01-01 UTC written with a negative offset
\* (locally still 2024-12-31); a date in 2023
DRecent == [t |-> At(2025, 1, TicksPerDay - 1), off |-> 0]
DWest == [t |-> At(2025, 1, 0), off |-> -1]
DOld == [t |-> At(2023, 150, 0), off |-> 0]

Dates == {DRecent, DWest, DOld}

\* the instants split_by_group may read as Utc::now(): 2024-02-29 and 2025-03-11
\* (one calendar year before the latter is 365 days before it)
NowSet == {At(2024, 60, 0), At(2025, 70, 1)}

PubDateTexts == {<<"bad">>} \cup {<<"ok", d>> : d \in Dates}

\* rss::Item: title, pub_date and link are Option<String>
RssItems ==
    [title : {None, Some("t")},
     pub_date : {None} \cup {Some(x) : x \in PubDateTexts},
     link : {None, Some("http://item")}]

\* atom_syndication::Entry: title and updated always present, published
\* optional, links a possibly empty Vec<Link>
AtomEntries ==
    [title : {"t"},
     published : {None} \cup {Some(d) : d \in Dates},
     updated : {DOld},
     links : {<<>>, <<[href |-> "http://item"]>>}]

\* what the two readers make of a response body: an RSS channel, else an Atom
\* feed, else neither
Payloads ==
    {<<"rss", items>> : items \in SeqUpTo(RssItems, MaxItems)}
    \cup {<<"atom", entries>> : entries \in SeqUpTo(AtomEntries, MaxItems)}
    \cup {<<"garbage">>}

----------------------------------------------------------------------------
\* Results of code that may panic: <<"ok", v>> or <<"panic">>.

Ok(v) == <<"ok", v>>
Panic == <<"panic">>
IsOk(r) == r[1] = "ok"

\* diligent_date_parser::parse_date
parse_date(text) == IF text[1] = "ok" THEN Some(text[2]) ELSE None

RECURSIVE rss_loop(_, _, _)
rss_loop(items, channel, acc) ==
    IF items = <<>> THEN Ok(acc)
    ELSE LET item == Head(items)
             title == IF IsSome(item.title) THEN Unwrap(item.title) ELSE ""
         IN  IF ~IsSome(item.pub_date) THEN Panic          \* expect("error format!")
             ELSE LET date == parse_date(Unwrap(item.pub_date))
                  IN  IF ~IsSome(date)
                        THEN rss_loop(Tail(items), channel, acc)   \* continue
                      ELSE IF ~IsSome(item.link) THEN Panic   \* item.link.unwrap()
                      ELSE rss_loop(Tail(items), channel,
                                    Append(acc, [title |-> title,
                                                 author |-> channel.author,
                                                 date |-> Unwrap(date),
                                                 url |-> Unwrap(item.link),
                                                 group |-> channel.group]))

parser_rss(feed, channel) == rss_loop(feed, channel, <<>>)

RECURSIVE atom_loop(_, _, _)
atom_loop(entries, channel, acc) ==
    IF entries = <<>> THEN Ok(acc)
    ELSE LET item == Head(entries)
             date == IF IsSome(item.published) THEN Unwrap(item.published)
                     ELSE item.updated
         IN  IF Len(item.links) = 0 THEN Panic               \* item.links[0]
             ELSE atom_loop(Tail(entries), channel,
                            Append(acc, [title |-> item.title,
                                         author |-> channel.author,
                                         date |-> date,
                                         url |-> item.links[1].href,
                                         group |-> channel.group]))

parser_atom(feed, channel) == atom_loop(feed, channel, <<>>)

\* the match of fetch_feed on one response body
parse_body(body, channel) ==
    IF body[1] = "rss" THEN parser_rss(body[2], channel)
    ELSE IF body[1] = "atom" THEN parser_atom(body[2], channel)
    ELSE Ok(<<>>)                                            \* "parse error at"

----------------------------------------------------------------------------
\* The state after get_channels, when join_all has polled every fetch future
\* once: one descriptor per subscription, the first request of every channel
\* sent and not yet answered.

ChannelLists ==
    {[i \in ChannelIds |-> [url |-> Urls[i], author |-> Authors[i], group |-> g[i]]] :
        g \in [ChannelIds -> Groups]}

Init ==
    /\ channels \in ChannelLists
    /\ fstate = [i \in ChannelIds |-> "Pending"]
    /\ requests = [i \in ChannelIds |-> 1]
    /\ contents = [i \in ChannelIds |-> None]
    /\ parsed = [i \in ChannelIds |-> <<>>]
    /\ idx = 1
    /\ feeds = <<>>
    /\ now = None
    /\ buckets = <<>>
    /\ todo = {}
    /\ docs = <<>>
    /\ files = <<>>
    /\ pc = "fetch"

\* client.execute(query) resolves with a response
ExecuteOk(i) ==
    /\ pc = "fetch" /\ fstate[i] = "Pending"
    /\ fstate' = [fstate EXCEPT ![i] = "Reading"]
    /\ UNCHANGED <<channels, requests, contents, parsed, idx, feeds, now, buckets, todo, docs, files, pc>>

\* client.execute(query) resolves with an error: or_else sends clone_query
ExecuteErr(i) ==
    /\ pc = "fetch" /\ fstate[i] = "Pending"
    /\ fstate' = [fstate EXCEPT ![i] = "RetryPending"]
    /\ requests' = [requests EXCEPT ![i] = @ + 1]
    /\ UNCHANGED <<channels, contents, parsed, idx, feeds, now, buckets, todo, docs, files, pc>>

\* client.execute(clone_query) resolves with a response
RetryOk(i) ==
    /\ pc = "fetch" /\ fstate[i] = "RetryPending"
    /\ fstate' = [fstate EXCEPT ![i] = "RetryReading"]
    /\ UNCHANGED <<channels, requests, contents, parsed, idx, feeds, now, buckets, todo, docs, files, pc>>

\* client.execute(clone_query) resolves with an error: the future is Err
RetryErr(i) ==
    /\ pc = "fetch" /\ fstate[i] = "RetryPending"
    /\ fstate' = [fstate EXCEPT ![i] = "Failed"]
    /\ contents' = [contents EXCEPT ![i] = Some("Err")]
    /\ UNCHANGED <<channels, requests, parsed, idx, feeds, now, buckets, todo, docs, files, pc>>

\* and_then: s.bytes() resolves with the body
BytesOk(i) ==
    /\ pc = "fetch" /\ fstate[i] \in {"Reading", "RetryReading"}
    /\ fstate' = [fstate EXCEPT ![i] = "Success"]
    /\ contents' = [contents EXCEPT ![i] = Some("Ok")]
    /\ UNCHANGED <<channels, requests, parsed, idx, feeds, now, buckets, todo, docs, files, pc>>

\* and_then: s.bytes() resolves with an error (body unreadable, or the timeout
\* of the request expires while the body is read): the future is Err
BytesErr(i) ==
    /\ pc = "fetch" /\ fstate[i] \in {"Reading", "RetryReading"}
    /\ fstate' = [fstate EXCEPT ![i] = "Failed"]
    /\ contents' = [contents EXCEPT ![i] = Some("Err")]
    /\ UNCHANGED <<channels, requests, parsed, idx, feeds, now, buckets, todo, docs, files, pc>>

Settled(i) == fstate[i] \in {"Success", "Failed"}

\* join_all(contents).await returns once every future has resolved
JoinAll ==
    /\ pc = "fetch"
    /\ \A i \in ChannelIds : Settled(i)
    /\ pc' = "parse"
    /\ UNCHANGED <<channels, fstate, requests, contents, parsed, idx, feeds, now, buckets, todo, docs, files>>

\* one iteration of the second loop of fetch_feed. The body of channel idx is
\* decoded only here, so what it holds is this step's input.
ParseChannel ==
    /\ pc = "parse" /\ idx <= NumChannels
    /\ IF contents[idx] = Some("Err")
         THEN /\ idx' = idx + 1                              \* "error on fetching"
              /\ UNCHANGED <<feeds, parsed, pc>>
       ELSE \E body \in Payloads :
              LET r == parse_body(body, channels[idx])
              IN  IF IsOk(r)
                    THEN /\ feeds' = feeds \o r[2]
                         /\ parsed' = [parsed EXCEPT ![idx] = r[2]]
                         /\ idx' = idx + 1
                         /\ pc' = pc
                  ELSE /\ pc' = "panicked"
                       /\ UNCHANGED <<feeds, parsed, idx>>
    /\ UNCHANGED <<channels, fstate, requests, contents, now, buckets, todo, docs, files>>

\* return feeds: the futures and their results are dropped
ReturnFeeds ==
    /\ pc = "parse" /\ idx > NumChannels
    /\ fstate' = [i \in ChannelIds |-> "Dropped"]
    /\ requests' = [i \in ChannelIds |-> 0]
    /\ contents' = [i \in ChannelIds |-> None]
    /\ pc' = "sort"
    /\ UNCHANGED <<channels, parsed, idx, feeds, now, buckets, todo, docs, files>>


----------------------------------------------------------------------------
\* Aggregation: feeds.sort_by_key(|f| f.date); feeds.reverse();

\* insertion of x behind every element whose key is not greater: what a stable
\* ascending sort does with x arriving after the elements of `sorted`
RECURSIVE insert_stable(_, _)
insert_stable(sorted, x) ==
    IF sorted = <<>> THEN <<x>>
    ELSE IF Head(sorted).date.t <= x.date.t
           THEN <<Head(sorted)>> \o insert_stable(Tail(sorted), x)
         ELSE <<x>> \o sorted

\* slice::sort_by_key: stable, ascending by the instant of date
RECURSIVE sort_by_key(_)
sort_by_key(list) ==
    IF list = <<>> THEN <<>>
    ELSE insert_stable(sort_by_key(SubSeq(list, 1, Len(list) - 1)), list[Len(list)])

\* slice::reverse
reverse(list) == [i \in 1..Len(list) |-> list[Len(list) + 1 - i]]

\* a descending sort that keeps ties in insertion order
sort_feeds_ties_kept(list) == reverse(sort_by_key(reverse(list)))

sort_feeds(list) == reverse(sort_by_key(list))

SortFeeds ==
    /\ pc = "sort"
    /\ feeds' = sort_feeds(feeds)
    /\ pc' = "split"
    /\ UNCHANGED <<channels, fstate, requests, contents, parsed, idx, now, buckets, todo, docs, files>>

----------------------------------------------------------------------------
\* Partition: split_by_group

\* now.with_year(now.year() - 1), before the unwrap
past_year_of(n) == with_year(n, YearOfDay(DayOf(n)) - 1)

\* the keys of an exclusive partition: a grouped entry only under its group
keys_of_exclusive(feed, past_year) ==
    (IF feed.group # "" THEN <<feed.group>> ELSE <<"">>)
    \o (IF feed.date.t - past_year >= 0 THEN <<"this-year">> ELSE <<>>)

\* the keys one entry is pushed under, in order
keys_of(feed, past_year) ==
    <<"">>
    \o (IF feed.group # "" THEN <<feed.group>> ELSE <<>>)
    \o (IF feed.date.t - past_year >= 0 THEN <<"this-year">> ELSE <<>>)

\* s.entry(k).or_insert(vec![]).push(feed.clone()) for every k of keys
RECURSIVE push_all(_, _, _)
push_all(s, keys, feed) ==
    IF keys = <<>> THEN s
    ELSE LET k == Head(keys)
             s1 == IF k \in DOMAIN s
                     THEN [s EXCEPT ![k] = Append(@, feed)]
                   ELSE [x \in DOMAIN s \cup {k} |-> IF x = k THEN <<feed>> ELSE s[x]]
         IN  push_all(s1, Tail(keys), feed)

RECURSIVE split_loop(_, _, _)
split_loop(s, list, past_year) ==
    IF list = <<>> THEN s
    ELSE split_loop(push_all(s, keys_of(Head(list), past_year), Head(list)),
                    Tail(list), past_year)

\* the empty HashMap
EmptyMap == [x \in {} |-> <<>>]

split_by_group(list, n) == split_loop(EmptyMap, list, Unwrap(past_year_of(n)))

SplitByGroup ==
    /\ pc = "split"
    /\ \E n \in NowSet :
         /\ now' = Some(n)
         /\ IF IsSome(past_year_of(n))
              THEN /\ buckets' = split_by_group(feeds, n)
                   /\ todo' = DOMAIN buckets'
                   /\ pc' = "write"
            ELSE /\ pc' = "panicked"                         \* unwrap of None
                 /\ UNCHANGED <<buckets, todo>>
    /\ UNCHANGED <<channels, fstate, requests, contents, parsed, idx, feeds, docs, files>>

----------------------------------------------------------------------------
\* Rendering: generate_md. The text is the sequence of blocks that
\* buf.join("\n\n") joins.

fmt_year(item) == [kind |-> "year", year |-> year(item.date)]

fmt_item(item) ==
    [kind |-> "item", date |-> format_ymd(item.date), author |-> item.author,
     title |-> item.title, url |-> item.url]

RECURSIVE md_loop(_, _, _)
md_loop(list, i, buf) ==
    IF i > Len(list) THEN buf
    ELSE LET item == list[i]
             buf1 == IF year(item.date) # year(list[i - 1].date)
                       THEN Append(buf, fmt_year(item))
                     ELSE buf
         IN  md_loop(list, i + 1, Append(buf1, fmt_item(item)))

generate_md(list) ==
    IF list = <<>> THEN <<>>
    ELSE md_loop(list, 2, <<fmt_year(list[1])>>)

----------------------------------------------------------------------------
\* The write loop of main, over the HashMap in the order it iterates (any
\* order). The output directory is taken to be writable.

file_name(k) == (IF k = "" THEN "all" ELSE k) \o ".md"

\* File::create(path) truncates or creates; write(doc)
write_file(fs, name, doc) ==
    [x \in DOMAIN fs \cup {name} |-> IF x = name THEN doc ELSE fs[x]]

WriteBucket ==
    /\ pc = "write"
    /\ \E k \in todo :
         /\ docs' = write_file(docs, k, generate_md(buckets[k]))
         /\ files' = write_file(files, file_name(k), docs'[k])
         /\ todo' = todo \ {k}
    /\ UNCHANGED <<channels, fstate, requests, contents, parsed, idx, feeds, now, buckets, pc>>

Finish ==
    /\ pc = "write" /\ todo = {}
    /\ pc' = "done"
    /\ UNCHANGED <<channels, fstate, requests, contents, parsed, idx, feeds, now, buckets, todo, docs, files>>

----------------------------------------------------------------------------

Next ==
    \/ \E i \in ChannelIds : ExecuteOk(i)
    \/ \E i \in ChannelIds : ExecuteErr(i)
    \/ \E i \in ChannelIds : RetryOk(i)
    \/ \E i \in ChannelIds : RetryErr(i)
    \/ \E i \in ChannelIds : BytesOk(i)
    \/ \E i \in ChannelIds : BytesErr(i)
    \/ JoinAll
    \/ ParseChannel
    \/ ReturnFeeds
    \/ SortFeeds
    \/ SplitByGroup
    \/ WriteBucket
    \/ Finish

Spec == Init /\ [][Next]_vars


----------------------------------------------------------------------------
\* Vocabulary of the properties.

Range(seq) == {seq[i] : i \in DOMAIN seq}

Count(e, seq) == Cardinality({i \in DOMAIN seq : seq[i] = e})

RECURSIVE ConcatUpTo(_, _)
ConcatUpTo(f, n) == IF n = 0 THEN <<>> ELSE ConcatUpTo(f, n - 1) \o f[n]

\* the entries the parser calls returned, in channel order then item order:
\* the order in which fetch_feed appended them
Merged == ConcatUpTo(parsed, NumChannels)

Sorted == pc \in {"split", "write", "done"}

Partitioned == pc \in {"write", "done"}

\* a is b with some elements left out
RECURSIVE IsSubseq(_, _)
IsSubseq(a, b) ==
    IF a = <<>> THEN TRUE
    ELSE IF b = <<>> THEN FALSE
    ELSE IF Head(a) = Head(b) THEN IsSubseq(Tail(a), Tail(b))
    ELSE IsSubseq(a, Tail(b))

NonIncreasing(list) ==
    \A i \in 1..Len(list) - 1 : list[i].date.t >= list[i + 1].date.t

IsItem(b) == b.kind = "item"

ItemBlocks(doc) == SelectSeq(doc, IsItem)

Lines(list) == [i \in 1..Len(list) |-> fmt_item(list[i])]

----------------------------------------------------------------------------
\* C1. Every digest the renderer returned for a bucket holds exactly one entry
\* line per entry of that bucket, in the order of the bucket: its non-heading
\* blocks are the lines of the entries, the first entry included.
C1_OneLinePerEntry ==
    \A k \in DOMAIN docs : ItemBlocks(docs[k]) = Lines(buckets[k])

\* C2. A channel sends at most two requests, and its fetch is Failed only after
\* the retry (the second request) has been sent and has failed too: a failure
\* of the first attempt, an unreadable body included, is always retried.
C2_FailedOnlyAfterRetry ==
    \A i \in ChannelIds :
        /\ requests[i] <= 2
        /\ fstate[i] = "Failed" => requests[i] = 2

\* C3. The format parser is never fatal to the run: the run is never aborted
\* inside the parse loop, whatever the body of a channel holds (now is read
\* only after the parse loop has returned).
C3_ParserNeverFatal ==
    pc = "panicked" => now # None

\* C4. A run in which the fetch of a channel has failed on both attempts is
\* not aborted; the failed channel contributes no entry, and once the parse
\* loop is over the aggregated collection holds what the parser returned for
\* every channel.
C4_FailedFetchRunCompletes ==
    \A i \in ChannelIds :
        (fstate[i] = "Failed" /\ requests[i] = 2) =>
            /\ pc # "panicked"
            /\ parsed[i] = <<>>
            /\ idx > NumChannels => feeds = Merged

\* C5. After partitioning, an entry is in the bucket "this-year" if and only
\* if its published instant is at most 365 days before the instant of the
\* run, whatever the group label of its channel.
C5_ThisYearIffWithin365Days ==
    Partitioned =>
        \A j \in 1..Len(feeds) :
            ("this-year" \in DOMAIN buckets /\ feeds[j] \in Range(buckets["this-year"]))
            <=> (Unwrap(now) - feeds[j].date.t <= 365 * TicksPerDay)

\* C6. At the end of a run every bucket has a file of its own that holds the
\* digest rendered for that bucket: all.md for the key "", <key>.md otherwise,
\* and no file was overwritten with the digest of another bucket.
C6_OneFilePerBucket ==
    pc = "done" =>
        \A k \in DOMAIN buckets :
            file_name(k) \in DOMAIN files /\ files[file_name(k)] = docs[k]

\* C7. Once a run that parsed at least one entry has partitioned them, the
\* bucket keyed "" holds every entry the parsers returned, each as many times
\* as it was returned, and nothing else.
C7_AllBucketHoldsEveryEntry ==
    (Partitioned /\ Merged # <<>>) =>
        /\ "" \in DOMAIN buckets
        /\ \A e \in Range(Merged) \cup Range(buckets[""]) :
               Count(e, buckets[""]) = Count(e, Merged)

\* a grouped and an ungrouped channel both contributed, one entry twice, and
\* the run has partitioned them and finished
C7_Witness ==
    /\ pc = "done"
    /\ \A i \in ChannelIds : parsed[i] # <<>>
    /\ \E i, j \in ChannelIds : channels[i].group # "" /\ channels[j].group = ""
    /\ \E e \in Range(Merged) : Count(e, Merged) = 2 /\ Count(e, buckets[""]) = 2

FirstOfYear(list, y) == CHOOSE i \in 1..Len(list) :
    /\ year(list[i].date) = y
    /\ \A j \in 1..i - 1 : year(list[j].date) # y

\* C8. Every digest holds exactly one year heading for each calendar year of
\* its (descending) entry list and none for another year, and every heading
\* is immediately followed by the line of the first entry of that year.
C8_OneHeadingPerYear ==
    \A k \in DOMAIN docs :
        LET list == buckets[k]
            doc == docs[k]
            ys == {year(list[i].date) : i \in 1..Len(list)}
        IN  /\ \A y \in ys :
                   Cardinality({p \in 1..Len(doc) :
                                  doc[p].kind = "year" /\ doc[p].year = y}) = 1
            /\ \A p \in 1..Len(doc) :
                   doc[p].kind = "year" =>
                       /\ doc[p].year \in ys
                       /\ p < Len(doc)
                       /\ doc[p + 1] = fmt_item(list[FirstOfYear(list, doc[p].year)])

\* C9. Every bucket is a subsequence of the sorted aggregated list, so its
\* entries, and the entry lines rendered for it, are in non-increasing
\* published order.
C9_BucketsAreSubsequences ==
    Partitioned =>
        \A k \in DOMAIN buckets :
            /\ IsSubseq(buckets[k], feeds)
            /\ NonIncreasing(buckets[k])
            /\ k \in DOMAIN docs => IsSubseq(ItemBlocks(docs[k]), Lines(buckets[k]))

\* the place in the sorted list of the entry merged at place i, when ties are
\* kept in insertion order / put in reverse insertion order
RankStable(m, i) ==
    1 + Cardinality({j \in 1..Len(m) :
            m[j].date.t > m[i].date.t \/ (m[j].date.t = m[i].date.t /\ j < i)})

RankReversed(m, i) ==
    1 + Cardinality({j \in 1..Len(m) :
            m[j].date.t > m[i].date.t \/ (m[j].date.t = m[i].date.t /\ j > i)})

\* C10 as claimed. The sorted collection is the merged list in descending
\* order of published, entries of equal instants in insertion order.
C10_SortStable ==
    Sorted =>
        /\ Len(feeds) = Len(Merged)
        /\ \A i \in 1..Len(Merged) : feeds[RankStable(Merged, i)] = Merged[i]

\* C10 as amended. The sorted collection is the merged list in descending
\* order of published, entries of equal instants in the reverse of their
\* insertion order.
C10_SortReversesTies ==
    Sorted =>
        /\ Len(feeds) = Len(Merged)
        /\ \A i \in 1..Len(Merged) : feeds[RankReversed(Merged, i)] = Merged[i]

\* sorted, with two different entries of one instant from one feed and two
\* from different channels
C10_Witness ==
    /\ Sorted
    /\ \E i \in ChannelIds :
         Len(parsed[i]) = 2 /\ parsed[i][1] # parsed[i][2]
         /\ parsed[i][1].date.t = parsed[i][2].date.t
    /\ \E i, j \in ChannelIds :
         i # j /\ parsed[i] # <<>> /\ parsed[j] # <<>>
         /\ parsed[i][1].date.t = parsed[j][1].date.t


====
